---- MODULE Spec2Model ----
(***************************************************************************)
(* A model of the NASLib successive-halving optimizer                      *)
(* (naslib/optimizers/discrete/sh/optimizer.py) and of the discretization  *)
(* of a NAS-Bench-301 cell (naslib/search_spaces/nasbench301/graph.py).    *)
(*                                                                         *)
(* Scheduler objects ("models") live on a heap: `models` is indexed by the *)
(* object's identity, and sampled_archs, history and the keys of           *)
(* optimizer_stats hold identities, so that two containers holding the     *)
(* same object see the same accuracy, as in Python.                        *)
(*                                                                         *)
(* The benchmark is the environment: each new_epoch call draws one         *)
(* response (the accuracy and the runtime the benchmark's predictors give  *)
(* for the evaluated architecture at the current epoch); every query of    *)
(* that call reads it.  All fidelities are integers, so int(fidelity) and  *)
(* math.floor of an integer product are the value itself.                  *)
(***************************************************************************)
EXTENDS Integers, Sequences, FiniteSets, TLC

\* ----------------------------------------------------------------- bounds
MaxArchs == 4
MaxEta == 3
MaxBudget == 3
MaxCalls == 6
MaxHistoryCalls == 104
MaxInEdges == 3

\* len(self.history) < 100
HistoryCapacity == 100

\* The benchmark's possible answers for one architecture at one epoch:
\* accuracies and runtimes are drawn from disjoint ranges.
Benchmark == { [acc |-> 1, rt |-> 5], [acc |-> 2, rt |-> 6] }

BudgetTypes == {"epoch", "time", "steps"}

\* The starting fidelities tried: none, one epoch, two epochs.
MinFidelities == {0, 1, 2}

\* The configuration of the specification's example scenario.
ExampleConfig ==
    [number_archs |-> 8, eta |-> 2, min_fidelity |-> 1, budget_max |-> 8,
     budget_type |-> "epoch"]

VARIABLES
    number_archs,      \* self.number_archs
    eta,               \* self.eta
    min_fidelity,      \* config.search.min_fidelity
    budget_max,        \* self.budget_max
    budget_type,       \* self.budget_type
    fidelity,          \* self.fidelity
    fidelity_counter,  \* self.fidelity_counter
    sampled_archs,     \* self.sampled_archs: identities, in list order
    history,           \* self.history: identities, in list order
    end,               \* self.end
    optimizer_stats,   \* self.optimizer_stats: identity -> five sequences
    models,            \* heap: models[id] = [accuracy, time] of object id
    result,            \* what the most recent operation returned
    pre,               \* the state the most recent new_epoch call started from
    queried,           \* queried[id]: epochs of new_epoch's accuracy queries
    calls,             \* completed new_epoch calls
    rounds,            \* completed rounds
    end_round,         \* rounds completed when end became true (0: not yet)
    cell_name,         \* the cell looked at: normal_cell or reduction_cell
    cell,              \* its edges: <<u, v>> -> EdgeData
    cell_before,       \* the cell as the most recent cell operation found it
    cell_op,           \* the most recent cell operation
    compact,           \* self.compact of the search space (<<>>: None)
    codec,             \* the last set_compact argument, the last get_compact value
    answer,            \* the most recent query call: its arguments and outcome
    truncation,        \* the most recent _truncate_input_edges call on its own
    encoding           \* what sample_random_architecture built (<<>>: not called)

scheduler_vars ==
    <<number_archs, eta, min_fidelity, budget_max, budget_type, fidelity,
      fidelity_counter, sampled_archs, history, end, optimizer_stats, models,
      result, pre, queried, calls, rounds, end_round>>

cell_vars ==
    <<cell_name, cell, cell_before, cell_op, compact, codec, answer, truncation,
      encoding>>

vars == <<scheduler_vars, cell_vars>>

config == <<number_archs, eta, min_fidelity, budget_max, budget_type>>

\* ------------------------------------------------------- search-space query
QueryAccuracy(metric, r) == r.acc
\* NasBench301SearchSpace.query: the accuracy predictor for VAL_ACCURACY, the
\* runtime predictor for TRAIN_TIME, -1 for every other metric.
query(metric, r) ==
    IF metric = "VAL_ACCURACY" THEN r.acc
    ELSE IF metric = "TRAIN_TIME" THEN r.rt
    ELSE -1

\* The predictor query forwards the genotype to: dataset_api["nb301_model"][0]
\* for VAL_ACCURACY, [1] for TRAIN_TIME, none for any other metric.
predictor(metric) ==
    IF metric = "VAL_ACCURACY" THEN "nb301_model[0]"
    ELSE IF metric = "TRAIN_TIME" THEN "nb301_model[1]"
    ELSE "none"

EpochUnsetOrFinal(epoch) == epoch \in {-1, 100}
\* assert not epoch or epoch in [-1, 100]: 0 is falsy, so it passes.
epoch_accepted(epoch) == epoch = 0 \/ epoch \in {-1, 100}

NoQuery ==
    [called |-> FALSE, metric |-> "None", epoch |-> -1, dataset_api |-> "None",
     response |-> [acc |-> 0, rt |-> 0], status |-> "ok", value |-> 0,
     predictor |-> "none", epoch_checked |-> FALSE]

QueryEpochFirst(metric, epoch, dataset_api, r) ==
    LET call == [NoQuery EXCEPT !.called = TRUE, !.metric = metric,
                                !.epoch = epoch, !.dataset_api = dataset_api,
                                !.response = r]
    IN IF ~epoch_accepted(epoch)
       THEN [call EXCEPT !.status = "AssertionError", !.epoch_checked = TRUE]
       ELSE IF dataset_api = "None"
       THEN [call EXCEPT !.status = "NotImplementedError", !.epoch_checked = TRUE]
       ELSE [call EXCEPT !.value = query(metric, r), !.predictor = predictor(metric),
                         !.epoch_checked = TRUE]
\* One call of query (lines 364-400): the benchmark handle is checked first,
\* then the epoch, then the metric picks the predictor.
query_call(metric, epoch, dataset_api, r) ==
    LET call == [NoQuery EXCEPT !.called = TRUE, !.metric = metric,
                                !.epoch = epoch, !.dataset_api = dataset_api,
                                !.response = r]
    IN IF dataset_api = "None"
       THEN [call EXCEPT !.status = "NotImplementedError"]
       ELSE IF ~epoch_accepted(epoch)
       THEN [call EXCEPT !.status = "AssertionError", !.epoch_checked = TRUE]
       ELSE [call EXCEPT !.value = query(metric, r), !.predictor = predictor(metric),
                         !.epoch_checked = TRUE]

\* self.performance_metric = Metric.VAL_ACCURACY
performance_metric == "VAL_ACCURACY"

\* --------------------------------------------------------------- new_epoch
\* model.time = model.arch.query(self.performance_metric, ...)
time_query(r) == query(performance_metric, r)

\* budget = 1; if budget_type == 'time': budget = model.time
budget_of(type, time) == IF type = "time" THEN time ELSE 1

NextFidelityAdditive(e, f) == f + 1
NextFidelitySame(e, f) == f
\* self.fidelity = math.floor(self.eta * self.fidelity)
NextFidelity(e, f) == e * f

\* list.sort(key=accuracy, reverse=True) is stable: equal accuracies keep
\* their order.  InsertDescending puts x behind every entry that is at least
\* as accurate.
RECURSIVE InsertDescending(_, _, _)
InsertDescending(s, x, heap) ==
    IF s = <<>> THEN <<x>>
    ELSE IF heap[Head(s)].accuracy >= heap[x].accuracy
         THEN <<Head(s)>> \o InsertDescending(Tail(s), x, heap)
         ELSE <<x>> \o s

RECURSIVE SortAscending(_, _)
SortAscending(s, heap) ==
    IF s = <<>> THEN <<>>
    ELSE LET rest == SortAscending(SubSeq(s, 1, Len(s) - 1), heap)
             x == s[Len(s)]
             k == Cardinality({i \in 1..Len(rest) :
                               heap[rest[i]].accuracy <= heap[x].accuracy})
         IN SubSeq(rest, 1, k) \o <<x>> \o SubSeq(rest, k + 1, Len(rest))

RECURSIVE SortDescending(_, _)
SortDescending(s, heap) ==
    IF s = <<>> THEN <<>>
    ELSE InsertDescending(SortDescending(SubSeq(s, 1, Len(s) - 1), heap),
                          s[Len(s)], heap)

SurvivorsKeepAll(sorted, n, e, next_fidelity, bmax) == sorted
SurvivorsSliceOnly(sorted, n, e, next_fidelity, bmax) ==
    IF next_fidelity > bmax THEN sorted ELSE SubSeq(sorted, 1, n \div e)
\* The population after ranking (lines 117-124).
Survivors(sorted, n, e, next_fidelity, bmax) ==
    IF next_fidelity > bmax THEN sorted
    ELSE IF n \div e # 0 THEN SubSeq(sorted, 1, n \div e)
    ELSE <<sorted[1]>>

EndOnlyByCeiling(was, n, e, next_fidelity, bmax) ==
    IF next_fidelity > bmax THEN TRUE ELSE was
EndIgnoresCeiling(was, n, e, next_fidelity, bmax) ==
    IF n \div e # 0 THEN was ELSE TRUE
\* self.end after ranking (lines 117-124).
EndAfterRanking(was, n, e, next_fidelity, bmax) ==
    IF next_fidelity > bmax THEN TRUE
    ELSE IF n \div e # 0 THEN was
    ELSE TRUE

AppendAlways(h, child, heap) == Append(h, child)
\* _update_history: append below capacity, else replace the first entry of
\* strictly lower accuracy.
_update_history(h, child, heap) ==
    IF Len(h) < HistoryCapacity THEN Append(h, child)
    ELSE LET lower == {i \in 1..Len(h) :
                       heap[child].accuracy > heap[h[i]].accuracy}
         IN IF lower = {} THEN h
            ELSE LET i == CHOOSE j \in lower : \A k \in lower : j <= k
                 IN [h EXCEPT ![i] = child]

EmptyStats ==
    [train_acc |-> <<>>, val_acc |-> <<>>, test_acc |-> <<>>,
     train_time |-> <<>>, fidelity |-> <<>>]

StatsReset(stats, key) == EmptyStats
\* self.optimizer_stats is a defaultdict: an entry not recorded yet starts
\* with empty sequences.
StatsOf(stats, key) == IF key \in DOMAIN stats THEN stats[key] ELSE EmptyStats

StatsFidelityNext(f, e) == e * f
\* The value update_optimizer_stats appends to 'fidelity': self.fidelity, read
\* before new_epoch advances it.
StatsFidelity(f, e) == f

\* update_optimizer_stats: the entry at the position counter, keyed by its
\* identity hash, gets one value per metric and the current fidelity.
update_optimizer_stats(stats, archs, counter, f, e, r) ==
    LET key == archs[counter + 1]
        old == StatsOf(stats, key)
        new == [train_acc  |-> Append(old.train_acc, query("TRAIN_ACCURACY", r)),
                val_acc    |-> Append(old.val_acc, query("VAL_ACCURACY", r)),
                test_acc   |-> Append(old.test_acc, query("TEST_ACCURACY", r)),
                train_time |-> Append(old.train_time, query("TRAIN_TIME", r)),
                fidelity   |-> Append(old.fidelity, StatsFidelity(f, e))]
    IN [k \in (DOMAIN stats) \cup {key} |-> IF k = key THEN new ELSE stats[k]]

NoResult ==
    [op |-> "none", status |-> "ok", value |-> 0, arch |-> 0,
     report_incumbent |-> FALSE, metrics |-> <<>>]

NoCall ==
    [called |-> FALSE, ranked |-> FALSE, n |-> 0, fidelity |-> 0, end |-> FALSE,
     archs |-> <<>>, evaluated |-> 0, response |-> [acc |-> 0, rt |-> 0],
     first |-> FALSE, history |-> <<>>]

RaisesUnlessEpoch(type) == type # "epoch"
\* if self.budget_type == 'time': ... elif not self.budget_type == "epoch":
\* raise NameError (lines 93-103).
raises_name_error(type) == type # "time" /\ ~(type = "epoch")

SamplingOneMore(archs, n) == Len(archs) < n + 1
\* if len(self.sampled_archs) < self.number_archs: the call samples a new
\* architecture and appends it (lines 76, 106).
sampling(archs, n) == Len(archs) < n

RoundCompleteEarly(counter, n) == counter >= n - 1
\* if self.fidelity_counter == self.number_archs: the round's last entry has
\* been evaluated.
round_complete(counter, n) == counter = n

\* new_epoch with a budget_type of 'epoch' or 'time' (lines 74-128).
new_epoch(r) ==
    LET first == sampling(sampled_archs, number_archs)
        model == IF first THEN Len(models) + 1
                 ELSE sampled_archs[fidelity_counter + 1]
        acc == query(performance_metric, r)
        heap1 == IF first THEN Append(models, [accuracy |-> acc, time |-> <<>>])
                 ELSE [models EXCEPT ![model].accuracy = acc]
        heap2 == IF budget_type = "time"
                 THEN [heap1 EXCEPT ![model].time = <<time_query(r)>>]
                 ELSE heap1
        budget == budget_of(budget_type, time_query(r))
        archs1 == IF first THEN Append(sampled_archs, model)
                  ELSE [sampled_archs EXCEPT ![fidelity_counter + 1] = model]
        counter1 == fidelity_counter + 1
        ranking == round_complete(counter1, number_archs)
        fidelity2 == NextFidelity(eta, fidelity)
        sorted == SortDescending(archs1, heap2)
        archs2 == Survivors(sorted, number_archs, eta, fidelity2, budget_max)
        end2 == EndAfterRanking(end, number_archs, eta, fidelity2, budget_max)
    IN /\ ~raises_name_error(budget_type)
       /\ models' = heap2
       /\ optimizer_stats' =
              update_optimizer_stats(optimizer_stats, archs1, fidelity_counter,
                                     fidelity, eta, r)
       /\ history' = _update_history(history, model, heap2)
       /\ queried' = IF first THEN Append(queried, <<fidelity>>)
                     ELSE [queried EXCEPT ![model] = Append(@, fidelity)]
       /\ IF ranking
          THEN /\ fidelity' = fidelity2
               /\ sampled_archs' = archs2
               /\ end' = end2
               /\ number_archs' = Len(archs2)
               /\ fidelity_counter' = 0
               /\ rounds' = rounds + 1
               /\ end_round' = IF end2 /\ ~end THEN rounds + 1 ELSE end_round
          ELSE /\ fidelity' = fidelity
               /\ sampled_archs' = archs1
               /\ end' = end
               /\ number_archs' = number_archs
               /\ fidelity_counter' = counter1
               /\ rounds' = rounds
               /\ end_round' = end_round
       /\ result' = [NoResult EXCEPT !.op = "new_epoch", !.value = budget,
                                     !.arch = model]
       /\ pre' = [called |-> TRUE, ranked |-> ranking, n |-> number_archs,
                  fidelity |-> fidelity, end |-> end, archs |-> archs1,
                  evaluated |-> model, response |-> r, first |-> first,
                  history |-> history]
       /\ calls' = calls + 1
       /\ UNCHANGED <<eta, min_fidelity, budget_max, budget_type, cell_vars>>

NewEpochRaisesLate(r) ==
    /\ raises_name_error(budget_type)
    /\ models' = Append(models, [accuracy |-> query(performance_metric, r),
                                 time |-> <<>>])
    /\ sampled_archs' = Append(sampled_archs, Len(models) + 1)
    /\ result' = [NoResult EXCEPT !.op = "new_epoch", !.status = "NameError"]
    /\ UNCHANGED <<config, fidelity, fidelity_counter, history, end,
                   optimizer_stats, pre, queried, calls, rounds, end_round,
                   cell_vars>>

\* new_epoch with any other budget_type: the accuracy query has run (and has
\* overwritten the accuracy of an entry fetched from the population) when
\* NameError is raised at line 103.
new_epoch_raises(r) ==
    LET first == sampling(sampled_archs, number_archs)
        model == sampled_archs[fidelity_counter + 1]
    IN /\ raises_name_error(budget_type)
       /\ models' = IF first THEN models
                    ELSE [models EXCEPT ![model].accuracy = query(performance_metric, r)]
       /\ result' = [NoResult EXCEPT !.op = "new_epoch", !.status = "NameError"]
       /\ UNCHANGED <<config, fidelity, fidelity_counter, sampled_archs, history,
                      end, optimizer_stats, pre, queried, calls, rounds, end_round,
                      cell_vars>>

\* ------------------------------------------------ get_final_architecture
FirstEntry(archs, heap) == archs[1]
\* max(self.sampled_archs, key=accuracy): the first entry of maximal accuracy.
get_final_architecture(archs, heap) ==
    LET best == {i \in 1..Len(archs) :
                 \A j \in 1..Len(archs) : heap[archs[i]].accuracy >= heap[archs[j]].accuracy}
    IN archs[CHOOSE i \in best : \A j \in best : i <= j]

\* ------------------------------------------------------- train_statistics
\* best_arch of train_statistics (lines 153-156).
best_arch(report_incumbent, archs, heap) ==
    IF report_incumbent THEN get_final_architecture(archs, heap)
    ELSE archs[Len(archs)]

\* The four queries of train_statistics (lines 158-171).
statistics(r) ==
    <<query("TRAIN_ACCURACY", r), query("VAL_ACCURACY", r),
      query("TEST_ACCURACY", r), query("TRAIN_TIME", r)>>

\* ------------------------------------------------------------ the cell
\* k = 2
K == 2

CellNodes == 1..7
Intermediate == 3..6

\* The edges of a cell (lines 110-119): the last four are finalized.
OpenEdges ==
    {<<1, i>> : i \in 3..6} \cup {<<2, i>> : i \in 3..6}
    \cup {<<3, 4>>, <<3, 5>>, <<3, 6>>, <<4, 5>>, <<4, 6>>, <<5, 6>>}

OutputEdges == {<<i, 7>> : i \in 3..6}

\* _set_ops: the eight candidate operations of an edge; stride 2 puts
\* FactorizedReduce in the place of Identity.
_set_ops(stride) ==
    <<IF stride = 1 THEN "Identity" ELSE "FactorizedReduce", "Zero", "MaxPool",
      "AvgPool", "SepConv3x3", "SepConv5x5", "DilConv3x3", "DilConv5x5">>

\* _set_cell_ops: stride 2 on the edges out of the input nodes of a reduction
\* cell, stride 1 elsewhere; finalized edges keep their operation.
StrideOf(name, u) == IF name = "reduction_cell" /\ u \in {1, 2} THEN 2 ELSE 1

NewCellAllOps(name, weights) ==
    [e \in OpenEdges \cup OutputEdges |->
        [final |-> e \in OutputEdges, op |-> _set_ops(StrideOf(name, e[1])),
         alpha |-> IF e \in OutputEdges THEN <<>> ELSE weights[e],
         zero_masked |-> FALSE]]
\* EdgeData of the cell after construction.  alpha is <<>> where the edge has
\* no architecture weights, and else one logit, 0 or 1, per candidate
\* operation.
NewCell(name, weights) ==
    [e \in OpenEdges \cup OutputEdges |->
        IF e \in OutputEdges
        THEN [final |-> TRUE, op |-> <<"Identity">>, alpha |-> <<>>,
              zero_masked |-> FALSE]
        ELSE [final |-> FALSE, op |-> _set_ops(StrideOf(name, e[1])),
              alpha |-> weights[e], zero_masked |-> FALSE]]

RECURSIVE Ascending(_)
Ascending(S) ==
    IF S = {} THEN <<>>
    ELSE LET m == CHOOSE x \in S : \A y \in S : x <= y
         IN <<m>> \o Ascending(S \ {m})

\* update_nodes hands the update function the incoming edges that are not
\* finalized, in the order the graph lists them (by source node).
in_edges(g, v) ==
    Ascending({u \in CellNodes : <<u, v>> \in DOMAIN g /\ ~g[<<u, v>>].final})

InDegree(g, v) == Cardinality({u \in CellNodes : <<u, v>> \in DOMAIN g})

\* random.randint(0, len(in_edges) - 1), once per edge over k (lines 441-442):
\* the draws node v's truncation makes, none outside the discrete case.
Draws(g, v) ==
    LET ins == in_edges(g, v)
        n == Len(ins)
    IN IF n > K /\ \A i \in 1..n : g[<<ins[i], v>>].alpha = <<>> /\ ~g[<<ins[i], v>>].final
       THEN [1..(n - K) -> 0..(n - 1)]
       ELSE {<<>>}

LargestWeightUnmasked(alpha) ==
    LET ones == Cardinality({i \in 1..Len(alpha) : alpha[i] = 1})
    IN IF ones = 0 THEN 0 ELSE Len(alpha) - ones
\* _largest_post_softmax_weight, as a rank: alpha[1], the no-op's logit, is
\* -inf when the key is taken (line 427; line 414 then subtracts from a
\* minimum of -inf), so its softmax weight is 0.  With m live logits of which
\* j are 1 and the rest 0, the largest weight is 1/m for j = 0 and
\* e/(j*e + m - j) for j >= 1, which falls from j = 1 to j = m and is 1/m
\* again at j = m: the rank is m - j for j >= 1 and 0 for j = 0.
_largest_post_softmax_weight(alpha) ==
    LET live == {i \in 1..Len(alpha) : i # 2}
        ones == Cardinality({i \in live : alpha[i] = 1})
    IN IF ones = 0 THEN 0 ELSE Cardinality(live) - ones

\* sorted(in_edges, key=_largest_post_softmax_weight, reverse=True): stable.
RECURSIVE InsertByWeight(_, _, _, _)
InsertByWeight(s, u, g, v) ==
    IF s = <<>> THEN <<u>>
    ELSE IF _largest_post_softmax_weight(g[<<Head(s), v>>].alpha)
               >= _largest_post_softmax_weight(g[<<u, v>>].alpha)
         THEN <<Head(s)>> \o InsertByWeight(Tail(s), u, g, v)
         ELSE <<u>> \o s

RECURSIVE SortByWeight(_, _, _)
SortByWeight(s, g, v) ==
    IF s = <<>> THEN <<>>
    ELSE InsertByWeight(SortByWeight(SubSeq(s, 1, Len(s) - 1), g, v),
                        s[Len(s)], g, v)

Range(s) == {s[i] : i \in 1..Len(s)}

\* The discrete case's deletions (lines 441-442): each draw flags the edge at
\* the drawn index of the in_edges list, which keeps its length.
Deleted(ins, draws) == {ins[draws[i] + 1] : i \in 1..Len(draws)}

\* data.alpha.data[1] = -float("Inf") (line 427)
Masked(d) == [d EXCEPT !.zero_masked = TRUE]

\* if isinstance(data.op, list) and data.op[1].get_op_name == "Zero":
\* data.op.pop(1) (lines 436-437)
Popped(d) ==
    IF Len(d.op) >= 2 /\ d.op[2] = "Zero"
    THEN [d EXCEPT !.op = <<d.op[1]>> \o SubSeq(d.op, 3, Len(d.op))]
    ELSE d

\* _truncate_input_edges (lines 420-442) on the list of incoming edges it is
\* handed: the data it leaves on each edge, the positions it flags for
\* deletion, and how it ends.  The one-shot loop (lines 424-427) goes through
\* the list in order: it returns at the first finalized edge, masks the no-op
\* weight of an edge that has weights, and fails on data.alpha at an edge
\* that has none.  The discrete case is entered only with no finalized edge,
\* so its return at line 439 is never taken.
_truncate_input_edges(ins, draws) ==
    LET n == Len(ins)
        positions == [i \in 1..n |-> i]
        stops == {i \in 1..n : ins[i].final \/ ins[i].alpha = <<>>}
        local == [e \in {<<i, 0>> : i \in 1..n} |-> ins[e[1]]]
    IN IF n < K THEN [status |-> "ok", edges |-> ins, deleted |-> {}]
       ELSE IF \E i \in 1..n : ins[i].alpha # <<>> \/ ins[i].final
       THEN IF stops # {}
            THEN LET p == CHOOSE i \in stops : \A j \in stops : i <= j
                 IN [status |-> IF ins[p].final THEN "ok" ELSE "AttributeError",
                     edges |-> [i \in 1..n |-> IF i < p THEN Masked(ins[i]) ELSE ins[i]],
                     deleted |-> {}]
            ELSE [status |-> "ok",
                  edges |-> [i \in 1..n |-> Masked(ins[i])],
                  deleted |-> (1..n) \ Range(SubSeq(SortByWeight(positions, local, 0), 1, K))]
       ELSE [status |-> "ok",
             edges |-> [i \in 1..n |-> Popped(ins[i])],
             deleted |-> Deleted(positions, draws)]

\* The incoming edges update_nodes hands over for node v.
EdgesInto(g, v) == [i \in 1..Len(in_edges(g, v)) |-> g[<<in_edges(g, v)[i], v>>]]

\* _truncate_input_edges on node v: the sources of the incoming edges it flags
\* for deletion.
TruncatedSources(g, v, draws) ==
    {in_edges(g, v)[i] : i \in _truncate_input_edges(EdgesInto(g, v), draws).deleted}

\* _truncate_input_edges on node v: the data it leaves on the incoming edge
\* from u; an edge it is not handed keeps its data.
TruncatedData(g, v, u) ==
    LET ins == in_edges(g, v)
    IN IF u \in Range(ins)
       THEN _truncate_input_edges(EdgesInto(g, v), <<>>).edges[
                CHOOSE i \in 1..Len(ins) : ins[i] = u]
       ELSE g[<<u, v>>]

\* prepare_discretization: update_nodes applies _truncate_input_edges to every
\* node of the cell, then removes the edges flagged for deletion.
prepare_discretization(g, draws) ==
    LET gone == {e \in DOMAIN g : e[1] \in TruncatedSources(g, e[2], draws[e[2]])}
    IN [e \in (DOMAIN g) \ gone |-> TruncatedData(g, e[2], e[1])]

\* --------------------------------------------------------- compact codec
\* The compact encoding of the cell: eight pairs <<input index, operation
\* index>>, two per intermediate node, in node order.  Pair j belongs to
\* intermediate node (j - 1) \div 2, which is node (j - 1) \div 2 + 3 of the
\* cell; input index p is node p + 1 of the cell.
Named(c) == {<<c[j][1] + 1, ((j - 1) \div 2) + 3>> : j \in 1..Len(c)}

\* The operations an operation index picks from: the candidates of the edge
\* without the no-op.
Operations(stride) ==
    LET ops == _set_ops(stride) IN <<ops[1]>> \o SubSeq(ops, 3, Len(ops))

OperationIndex(c, e) ==
    LET j == CHOOSE i \in 1..Len(c) : <<c[i][1] + 1, ((i - 1) \div 2) + 3>> = e
    IN c[j][2]

\* compact -> naslib: an edge the encoding names gets the named operation,
\* any other edge that is not finalized is deleted; finalized edges are left
\* out of the update.
convert_compact_to_naslib(c, g, name) ==
    [e \in {x \in DOMAIN g : g[x].final \/ x \in Named(c)} |->
        IF g[e].final THEN g[e]
        ELSE [g[e] EXCEPT
                 !.op = <<Operations(StrideOf(name, e[1]))[OperationIndex(c, e) + 1]>>]]

\* The graphs naslib -> compact is defined on: every intermediate node has
\* two incoming edges that are not finalized, each with a single operation.
Encodable(g, name) ==
    \A v \in Intermediate :
        /\ Len(in_edges(g, v)) = 2
        /\ \A i \in 1..2 :
              LET u == in_edges(g, v)[i]
              IN /\ Len(g[<<u, v>>].op) = 1
                 /\ \E k \in 1..7 : Operations(StrideOf(name, u))[k] = g[<<u, v>>].op[1]

\* naslib -> compact: per intermediate node, in node order, the pairs of its
\* two incoming edges in the order the graph lists them.
convert_naslib_to_compact(g, name) ==
    [j \in 1..8 |->
        LET v == ((j - 1) \div 2) + 3
            u == in_edges(g, v)[((j - 1) % 2) + 1]
            k == CHOOSE i \in 1..7 : Operations(StrideOf(name, u))[i] = g[<<u, v>>].op[1]
        IN <<u - 1, k - 1>>]

KeepsStored(old, c) == IF old = <<>> THEN c ELSE old
\* set_compact: self.compact = compact
stored_compact(old, c) == c

\* get_compact: the stored compact when there is one, else the encoding of
\* the graph, which is then stored.
get_compact(stored, g, name) ==
    IF stored = <<>> THEN convert_naslib_to_compact(g, name) ELSE stored

\* ----------------------------------------------------------------- actions
Observed ==
    <<config, fidelity, fidelity_counter, sampled_archs, history, end,
      optimizer_stats, models, pre, queried, calls, rounds, end_round, cell_vars>>

NewEpoch == \E r \in Benchmark : new_epoch(r)

NewEpochRaises == \E r \in Benchmark : new_epoch_raises(r)

\* max() of an empty list raises ValueError.
GetFinalArchitecture ==
    /\ result' = IF sampled_archs = <<>>
                 THEN [NoResult EXCEPT !.op = "get_final_architecture",
                                       !.status = "ValueError"]
                 ELSE [NoResult EXCEPT !.op = "get_final_architecture",
                           !.arch = get_final_architecture(sampled_archs, models)]
    /\ UNCHANGED Observed

TrainStatistics ==
    \E report_incumbent \in BOOLEAN, r \in Benchmark :
        /\ result' = IF sampled_archs = <<>>
                     THEN [NoResult EXCEPT !.op = "train_statistics",
                               !.status = IF report_incumbent THEN "ValueError"
                                          ELSE "IndexError",
                               !.report_incumbent = report_incumbent]
                     ELSE [NoResult EXCEPT !.op = "train_statistics",
                               !.arch = best_arch(report_incumbent, sampled_archs, models),
                               !.report_incumbent = report_incumbent,
                               !.metrics = statistics(r)]
        /\ UNCHANGED Observed

PrepareDiscretization ==
    \E d3 \in Draws(cell, 3), d4 \in Draws(cell, 4),
       d5 \in Draws(cell, 5), d6 \in Draws(cell, 6) :
        LET draws == [v \in CellNodes |->
                         IF v = 3 THEN d3 ELSE IF v = 4 THEN d4
                         ELSE IF v = 5 THEN d5 ELSE IF v = 6 THEN d6 ELSE <<>>]
        IN /\ cell' = prepare_discretization(cell, draws)
           /\ cell_before' = cell
           /\ cell_op' = "prepare_discretization"
           /\ UNCHANGED <<cell_name, compact, codec, answer, truncation, encoding,
                        scheduler_vars>>

\* The metrics, epochs and benchmark handles query is called with.
Metrics ==
    {"TRAIN_ACCURACY", "VAL_ACCURACY", "TEST_ACCURACY", "TRAIN_LOSS",
     "TRAIN_TIME", "RAW", "None"}

Epochs == {-1, 0, 1, 50, 100, 101}

DatasetApis == {"None", "nb301"}

\* The inputs of intermediate node i (0..3) in the compacts tried: the two
\* cell inputs, the two nodes just before it, or the first input and the
\* node just before it.
Wiring == {"inputs", "chain", "fan"}

WiredTo(wiring, i) ==
    IF wiring = "inputs" THEN <<0, 1>>
    ELSE IF wiring = "chain" THEN <<i, i + 1>>
    ELSE <<0, i + 1>>

\* Well-formed compacts: a wiring, its pairs listed lower input first or
\* higher input first, and the operation index j % 7 for pair j.
Compacts ==
    { [j \in 1..8 |->
          LET i == (j - 1) \div 2
              pos == IF flip THEN 2 - ((j - 1) % 2) ELSE ((j - 1) % 2) + 1
          IN <<WiredTo(wiring, i)[pos], j % 7>>] :
      wiring \in Wiring, flip \in BOOLEAN }

\* set_compact (lines 452-457), which sample_random_architecture ends in
\* (line 491); instantiate_model is True (line 81).
SetCompact ==
    \E c \in Compacts :
        /\ compact' = stored_compact(compact, c)
        /\ cell' = convert_compact_to_naslib(c, cell, cell_name)
        /\ cell_before' = cell
        /\ cell_op' = "set_compact"
        /\ codec' = [codec EXCEPT !.set = c]
        /\ UNCHANGED <<cell_name, answer, truncation, encoding, scheduler_vars>>

NUM_VERTICES == 4
NUM_OPS == 7

ChoiceWithReplacement(n, size) == [1..size -> 0..(n - 1)]
\* np.random.choice(range(n), size, replace=False): size different members of
\* range(n), in the order drawn.
choice(n, size) ==
    {s \in [1..size -> 0..(n - 1)] : \A i, j \in 1..size : i # j => s[i] # s[j]}

\* np.random.choice(range(NUM_OPS), NUM_VERTICES), with replacement: the
\* outcomes enumerated are one index four times, and two runs of indices.
OpDraws ==
    {[k \in 1..NUM_VERTICES |-> o] : o \in 0..(NUM_OPS - 1)}
    \cup {<<0, 1, 2, 3>>, <<6, 5, 4, 3>>}

\* The random outcomes of one sample_random_architecture call, iteration by
\* iteration (lines 479-482).  The outcomes enumerated: every outcome of one
\* iteration, the other iterations drawing ops 0, 1, 2, 3 and the inputs 0, 1
\* (normal) and 1, 0 (reduce).
RandomDraws ==
    UNION {{[i \in 0..(NUM_VERTICES - 1) |->
                IF i = i0
                THEN [ops |-> o, nodes_in_normal |-> n, nodes_in_reduce |-> r]
                ELSE [ops |-> <<0, 1, 2, 3>>, nodes_in_normal |-> <<0, 1>>,
                      nodes_in_reduce |-> <<1, 0>>]] :
             o \in OpDraws, n \in choice(i0 + 2, 2), r \in choice(i0 + 2, 2)} :
           i0 \in 0..(NUM_VERTICES - 1)}

\* The compact sample_random_architecture builds (lines 477-489): the normal
\* cell's pairs and the reduction cell's pairs, two per iteration.
sample_random_architecture(draws) ==
    <<[j \in 1..(2 * NUM_VERTICES) |->
          LET d == draws[(j - 1) \div 2]
              pos == ((j - 1) % 2) + 1
          IN <<d.nodes_in_normal[pos], d.ops[pos]>>],
      [j \in 1..(2 * NUM_VERTICES) |->
          LET d == draws[(j - 1) \div 2]
              pos == ((j - 1) % 2) + 1
          IN <<d.nodes_in_reduce[pos], d.ops[pos + 2]>>]>>

\* sample_random_architecture (lines 468-491) on a fresh clone of the search
\* space, as new_epoch calls it (optimizer.py lines 74-77); load_labeled is
\* False.  It ends in set_compact (line 491); of the compact, self.compact
\* of the model keeps the sequence of the cell looked at.
SampleRandomArchitecture ==
    /\ cell_op = "none"
    /\ \E draws \in RandomDraws :
          LET c == sample_random_architecture(draws)
              own == IF cell_name = "normal_cell" THEN c[1] ELSE c[2]
          IN /\ encoding' = c
             /\ compact' = stored_compact(compact, own)
             /\ cell' = convert_compact_to_naslib(own, cell, cell_name)
             /\ cell_before' = cell
             /\ cell_op' = "sample_random_architecture"
             /\ codec' = [codec EXCEPT !.set = own]
    /\ UNCHANGED <<cell_name, answer, truncation, scheduler_vars>>

\* get_compact (lines 444-447), called where it returns: a compact is stored
\* or the graph can be encoded.
GetCompact ==
    /\ compact # <<>> \/ Encodable(cell, cell_name)
    /\ compact' = get_compact(compact, cell, cell_name)
    /\ codec' = [codec EXCEPT !.got = get_compact(compact, cell, cell_name)]
    /\ cell' = cell
    /\ cell_before' = cell
    /\ cell_op' = "get_compact"
    /\ UNCHANGED <<cell_name, answer, truncation, encoding, scheduler_vars>>

\* query assigns nothing to the search space.
Query ==
    \E metric \in Metrics, epoch \in Epochs, dataset_api \in DatasetApis,
       r \in Benchmark :
        /\ answer' = query_call(metric, epoch, dataset_api, r)
        /\ cell' = cell
        /\ cell_before' = cell
        /\ cell_op' = "query"
        /\ UNCHANGED <<cell_name, compact, codec, truncation, encoding, scheduler_vars>>

\* The architecture weights drawn for an edge of the one-shot case: all
\* candidates level, the no-op ahead, one operation ahead, two operations
\* ahead, the no-op and one operation ahead.
Weights ==
    { <<0, 0, 0, 0, 0, 0, 0, 0>>, <<0, 1, 0, 0, 0, 0, 0, 0>>,
      <<0, 0, 1, 0, 0, 0, 0, 0>>, <<0, 0, 1, 1, 0, 0, 0, 0>>,
      <<0, 1, 0, 0, 0, 1, 0, 0>> }

LevelWeights == <<0, 0, 0, 0, 0, 0, 0, 0>>

NoWeights == [e \in OpenEdges |-> <<>>]

\* No _truncate_input_edges call on its own yet.
NoTruncation == [called |-> FALSE, in_edges |-> <<>>, status |-> "none",
                 edges |-> <<>>, deleted |-> {}]

ConstructedSpace(name, weights) ==
    /\ cell_name = name
    /\ cell = NewCell(name, weights)
    /\ cell_before = NewCell(name, weights)
    /\ cell_op = "none"
    /\ compact = <<>>
    /\ codec = [set |-> <<>>, got |-> <<>>]
    /\ answer = NoQuery
    /\ encoding = <<>>

ConstructedCell(name, weights) ==
    /\ ConstructedSpace(name, weights)
    /\ truncation = NoTruncation

\* The edges _truncate_input_edges is handed: a finalized edge, an edge with
\* a candidate list and no weights, an edge with a candidate list and
\* weights.
IncomingEdge ==
    {[final |-> TRUE, op |-> <<"Identity">>, alpha |-> <<>>, zero_masked |-> FALSE],
     [final |-> FALSE, op |-> _set_ops(1), alpha |-> <<>>, zero_masked |-> FALSE]}
    \cup {[final |-> FALSE, op |-> _set_ops(1), alpha |-> w, zero_masked |-> FALSE] :
            w \in {LevelWeights, <<0, 0, 1, 0, 0, 0, 0, 0>>}}

\* _truncate_input_edges is a static method (line 419): a call with a list
\* of incoming edges, the random draws being the discrete case's.
TruncateInputEdges ==
    /\ ~truncation.called
    /\ LET ins == truncation.in_edges
           n == Len(ins)
       IN \E draws \in IF n > K /\ \A i \in 1..n : ins[i].alpha = <<>> /\ ~ins[i].final
                        THEN [1..(n - K) -> 0..(n - 1)] ELSE {<<>>} :
              LET out == _truncate_input_edges(ins, draws)
              IN truncation' = [called |-> TRUE, in_edges |-> ins,
                                status |-> out.status, edges |-> out.edges,
                                deleted |-> out.deleted]
    /\ UNCHANGED <<cell_name, cell, cell_before, cell_op, compact, codec, answer,
                   encoding, scheduler_vars>>

Constructed(c) ==
    /\ number_archs = c.number_archs
    /\ eta = c.eta
    /\ min_fidelity = c.min_fidelity
    /\ budget_max = c.budget_max
    /\ budget_type = c.budget_type
    /\ fidelity = c.min_fidelity
    /\ fidelity_counter = 0
    /\ sampled_archs = <<>>
    /\ history = <<>>
    /\ end = FALSE
    /\ optimizer_stats = <<>>
    /\ models = <<>>
    /\ result = NoResult
    /\ pre = NoCall
    /\ queried = <<>>
    /\ calls = 0
    /\ rounds = 0
    /\ end_round = 0

Configs ==
    [number_archs : 1..MaxArchs, eta : 2..MaxEta, min_fidelity : MinFidelities,
     budget_max : 1..MaxBudget, budget_type : BudgetTypes]

Init == (\E c \in Configs : Constructed(c)) /\ ConstructedCell("normal_cell", NoWeights)

Next ==
    \/ calls < MaxCalls /\ NewEpoch
    \/ NewEpochRaises
    \/ GetFinalArchitecture
    \/ TrainStatistics

Spec == Init /\ [][Next]_vars

\* A caller that keeps calling new_epoch until end is set, for budgets the
\* fidelity reaches and for one it never reaches, starting at fidelity 0 or 1.
LiveConfigs ==
    [number_archs : 1..MaxArchs, eta : 2..MaxEta, min_fidelity : {0, 1},
     budget_max : (1..MaxBudget) \cup {100000}, budget_type : {"epoch", "time"}]

InitLive ==
    /\ \E c \in LiveConfigs : Constructed(c)
    /\ ConstructedCell("normal_cell", NoWeights)

NextLive == ~end /\ NewEpoch

SpecLive == InitLive /\ [][NextLive]_vars /\ WF_vars(NextLive)

\* The scheduler over the NAS-Bench-301 search space with a benchmark handle:
\* the accuracy query of new_epoch (lines 84-89) passes epoch=int(fidelity),
\* which query checks at line 386 of graph.py before anything is assigned; the
\* queries of update_optimizer_stats pass the same fidelity.
NewEpochQueried == epoch_accepted(fidelity) /\ NewEpoch

NewEpochAsserts ==
    /\ ~epoch_accepted(fidelity)
    /\ result' = [NoResult EXCEPT !.op = "new_epoch", !.status = "AssertionError"]
    /\ UNCHANGED Observed

\* Starting fidelities 0, 1 and 100, the benchmark's one checkpoint.
NB301Configs ==
    [number_archs : 1..MaxArchs, eta : 2..MaxEta, min_fidelity : {0, 1, 100},
     budget_max : {8, 100}, budget_type : {"epoch", "time"}]
    \cup {ExampleConfig}

InitNB301 ==
    /\ \E c \in NB301Configs : Constructed(c)
    /\ ConstructedCell("normal_cell", NoWeights)

NextNB301 ==
    \/ calls < MaxCalls /\ NewEpochQueried
    \/ NewEpochAsserts

SpecNB301 == InitNB301 /\ [][NextNB301]_vars

\* A long first round: more samples than the history holds, so that the
\* history fills up and entries are replaced while every call still evaluates
\* a new sample.
HistoryConfig ==
    [number_archs |-> 128, eta |-> 2, min_fidelity |-> 1, budget_max |-> 8,
     budget_type |-> "epoch"]

InitHistory == Constructed(HistoryConfig) /\ ConstructedCell("normal_cell", NoWeights)

\* new_epoch against a benchmark whose accuracies do not increase from one
\* sample to the next until the history is one short of its capacity, and
\* are free from then on.
NewEpochLongRun ==
    \E r \in Benchmark :
        /\ (pre.called /\ Len(history) < HistoryCapacity - 1) =>
               r.acc <= pre.response.acc
        /\ new_epoch(r)

NextHistory == calls < MaxHistoryCalls /\ NewEpochLongRun

SpecHistory == InitHistory /\ [][NextHistory]_vars

\* The example scenario: the caller polls end and stops calling new_epoch.
InitExample == Constructed(ExampleConfig) /\ ConstructedCell("normal_cell", NoWeights)

NextExample == ~end /\ NewEpoch

SpecExample == InitExample /\ [][NextExample]_vars

\* The cell of a search space: built for random search (candidate lists) or
\* for one-shot search (architecture weights on every edge that is not final;
\* the weights into one node are drawn, the others are level).
InitCell ==
    /\ Constructed(ExampleConfig)
    /\ \E name \in {"normal_cell", "reduction_cell"} :
          \/ ConstructedCell(name, NoWeights)
          \/ \E v \in Intermediate : \E w \in [1..(v - 1) -> Weights] :
                ConstructedCell(name, [e \in OpenEdges |->
                                         IF e[2] = v THEN w[e[1]] ELSE LevelWeights])

NextCell == PrepareDiscretization

SpecCell == InitCell /\ [][NextCell]_vars

\* The search space's encoding operations and its discretization, from a
\* cell with candidate lists or with level architecture weights.
InitCodec ==
    /\ Constructed(ExampleConfig)
    /\ \E name \in {"normal_cell", "reduction_cell"} :
          \/ ConstructedCell(name, NoWeights)
          \/ ConstructedCell(name, [e \in OpenEdges |-> LevelWeights])

NextCodec == SetCompact \/ GetCompact \/ PrepareDiscretization

SpecCodec == InitCodec /\ [][NextCodec]_vars

\* _truncate_input_edges on lists of incoming edges.
InitTruncate ==
    /\ Constructed(ExampleConfig)
    /\ ConstructedSpace("normal_cell", NoWeights)
    /\ \E n \in 1..MaxInEdges : \E ins \in [1..n -> IncomingEdge] :
          truncation = [NoTruncation EXCEPT !.in_edges = ins]

NextTruncate == TruncateInputEdges

SpecTruncate == InitTruncate /\ [][NextTruncate]_vars

\* Random architectures sampled on fresh search spaces.
InitSample ==
    /\ Constructed(ExampleConfig)
    /\ \E name \in {"normal_cell", "reduction_cell"} :
          ConstructedCell(name, NoWeights)

NextSample == SampleRandomArchitecture

SpecSample == InitSample /\ [][NextSample]_vars

\* Queries of a search space.
InitQuery ==
    /\ Constructed(ExampleConfig)
    /\ \E name \in {"normal_cell", "reduction_cell"} :
          ConstructedCell(name, NoWeights)

NextQuery == Query

SpecQuery == InitQuery /\ [][NextQuery]_vars

\* ------------------------------------------------------------------ claims
Accuracy(id) == models[id].accuracy

Active == {sampled_archs[i] : i \in 1..Len(sampled_archs)}

Ranked == pre.called /\ pre.ranked

\* The entries the last ranking dropped.
Retired == {pre.archs[i] : i \in 1..Len(pre.archs)} \ Active

Descending ==
    \A i, j \in 1..Len(sampled_archs) :
        i < j => Accuracy(sampled_archs[i]) >= Accuracy(sampled_archs[j])

RECURSIVE Pow(_, _)
Pow(b, n) == IF n = 0 THEN 1 ELSE b * Pow(b, n - 1)

\* C1: in the example scenario (8 architectures, eta 2, fidelities 1 to 8,
\* budget type 'epoch') the population is 4 at fidelity 2 after the 8th call,
\* 2 at fidelity 4 after the 12th, 1 at fidelity 8 after the 14th, and the 15th
\* call sets end with one architecture left; end is false before it.
C1_ExampleScenario ==
    /\ calls < 15 => ~end
    /\ calls = 8 => Len(sampled_archs) = 4 /\ fidelity = 2
    /\ calls = 12 => Len(sampled_archs) = 2 /\ fidelity = 4
    /\ calls = 14 => Len(sampled_archs) = 1 /\ fidelity = 8
    /\ calls = 15 => end /\ Len(sampled_archs) = 1

C1_Witness == calls = 15 /\ end /\ rounds = 4

\* C2 as stated: every ranking transition leaves the population strictly
\* smaller, or it was 1 and stays 1.
C2_PopulationShrinks ==
    Ranked => \/ Len(sampled_archs) < pre.n
              \/ pre.n = 1 /\ Len(sampled_archs) = 1

\* C2 amended: a ranking transition whose next fidelity does not exceed
\* budget_max leaves the population strictly smaller, or it was 1 and stays 1;
\* a ranking transition whose next fidelity exceeds budget_max sets end and
\* leaves the population at its size.
C2_PopulationShrinksBelowCeiling ==
    Ranked =>
        IF fidelity > budget_max
        THEN end /\ Len(sampled_archs) = pre.n
        ELSE \/ Len(sampled_archs) < pre.n
             \/ pre.n = 1 /\ Len(sampled_archs) = 1

C2_Witness ==
    /\ Ranked
    /\ fidelity <= budget_max
    /\ pre.n > 2
    /\ Len(sampled_archs) < pre.n

\* What C3 says of every ranking transition: the counter is reset and
\* number_archs is the new population size; with a next fidelity within
\* budget_max and floor(number_archs / eta) > 0 the population is the
\* floor(number_archs / eta) most accurate entries, in descending order.
C3_Common ==
    /\ fidelity_counter = 0
    /\ number_archs = Len(sampled_archs)
    /\ (fidelity <= budget_max /\ pre.n \div eta > 0) =>
           /\ Len(sampled_archs) = pre.n \div eta
           /\ Cardinality(Active) = Len(sampled_archs)
           /\ Active \subseteq {pre.archs[i] : i \in 1..Len(pre.archs)}
           /\ Descending
           /\ \A s \in Active, r \in Retired : Accuracy(s) >= Accuracy(r)

SingleBest ==
    /\ Len(sampled_archs) = 1
    /\ \E i \in 1..Len(pre.archs) : pre.archs[i] = sampled_archs[1]
    /\ \A i \in 1..Len(pre.archs) : Accuracy(sampled_archs[1]) >= Accuracy(pre.archs[i])
    /\ end

\* C3 as stated: ..., and whenever floor(number_archs / eta) = 0 the
\* population becomes the single most accurate entry and end is set.
C3_Survivors ==
    Ranked => /\ C3_Common
              /\ pre.n \div eta = 0 => SingleBest

\* C3 amended: ..., and when the next fidelity does not exceed budget_max and
\* floor(number_archs / eta) = 0 the population becomes the single most
\* accurate entry and end is set; when the next fidelity exceeds budget_max,
\* end is set and the whole population is kept, in descending order.
C3_SurvivorsBelowCeiling ==
    Ranked => /\ C3_Common
              /\ (fidelity <= budget_max /\ pre.n \div eta = 0) => SingleBest
              /\ fidelity > budget_max =>
                     /\ end
                     /\ Descending
                     /\ Len(sampled_archs) = pre.n
                     /\ Active = {pre.archs[i] : i \in 1..Len(pre.archs)}

\* A ranking that cut a population of at least three whose first-sampled
\* entry was strictly the worst.
C3_Witness ==
    /\ Ranked
    /\ fidelity <= budget_max
    /\ pre.n >= 3
    /\ Len(sampled_archs) = pre.n \div eta
    /\ \E r \in Retired : \A s \in Active : Accuracy(s) > Accuracy(r)
    /\ sampled_archs[1] # pre.archs[1]

\* C4 as stated: the fidelity after a completed round is floor(eta * fidelity)
\* and strictly greater than before; other calls leave it unchanged.
C4_FidelityIncreases ==
    pre.called =>
        IF pre.ranked
        THEN fidelity = eta * pre.fidelity /\ fidelity > pre.fidelity
        ELSE fidelity = pre.fidelity

\* C4 amended: the fidelity after a completed round is floor(eta * fidelity),
\* which is strictly greater than before when the fidelity was at least 1 and
\* is 0 again when it was 0; other calls leave it unchanged.
C4_FidelityIncreasesFromOne ==
    pre.called =>
        IF pre.ranked
        THEN /\ fidelity = eta * pre.fidelity
             /\ pre.fidelity >= 1 => fidelity > pre.fidelity
             /\ pre.fidelity = 0 => fidelity = 0
        ELSE fidelity = pre.fidelity

C4_Witness == Ranked /\ rounds >= 2 /\ pre.fidelity >= 1 /\ fidelity > pre.fidelity

InRange == 1 <= min_fidelity /\ min_fidelity <= budget_max

\* C5 as stated: with 1 <= min_fidelity <= budget_max, end is set after at
\* most log_eta(budget_max / min_fidelity) completed rounds:
\* min_fidelity * eta^rounds <= budget_max.
C5_RoundsWithinLog ==
    (InRange /\ end) => min_fidelity * Pow(eta, end_round) <= budget_max

\* C5 amended: with 1 <= min_fidelity <= budget_max, end is set after at most
\* floor(log_eta(budget_max / min_fidelity)) + 1 completed rounds: while end is
\* false the completed rounds r have min_fidelity * eta^r <= budget_max, and
\* the round that sets end is at most one more.
C5_RoundsWithinLogPlusOne ==
    InRange =>
        /\ ~end => min_fidelity * Pow(eta, rounds) <= budget_max
        /\ end => /\ end_round >= 1
                  /\ min_fidelity * Pow(eta, end_round - 1) <= budget_max

\* end set by the fidelity ceiling, after more than one round.
C5_Witness ==
    /\ InRange
    /\ end
    /\ end_round >= 2
    /\ min_fidelity * Pow(eta, end_round) > budget_max
    /\ Len(sampled_archs) >= 2

\* C6: get_final_architecture returns an active entry at least as accurate as
\* every active entry, and leaves the scheduler's state as it was.
C6_FinalIsBest ==
    /\ [](( result.op = "get_final_architecture" /\ result.status = "ok") =>
            /\ result.arch \in Active
            /\ \A a \in Active : Accuracy(result.arch) >= Accuracy(a))
    /\ [][result'.op = "get_final_architecture" => UNCHANGED Observed]_vars

\* Asked mid-round, of a population whose best entry is not its first.
C6_Witness ==
    /\ result.op = "get_final_architecture"
    /\ result.status = "ok"
    /\ fidelity_counter > 0
    /\ Len(sampled_archs) >= 2
    /\ result.arch # sampled_archs[1]

\* C7: new_epoch returns 1 under budget type 'epoch', and under 'time' the
\* benchmark's runtime for the evaluated architecture at the current fidelity.
C7_ReturnsCost ==
    (result.op = "new_epoch" /\ result.status = "ok") =>
        /\ budget_type = "epoch" => result.value = 1
        /\ budget_type = "time" => result.value = query("TRAIN_TIME", pre.response)

NonDecreasing(s) == \A i, j \in 1..Len(s) : i < j => s[i] <= s[j]

\* C8: every entry's recorded 'fidelity' sequence is non-decreasing and is the
\* sequence of fidelities at which new_epoch queried the entry's accuracy.
C8_StatsFidelities ==
    /\ DOMAIN optimizer_stats = 1..Len(models)
    /\ \A id \in 1..Len(models) :
           /\ optimizer_stats[id].fidelity = queried[id]
           /\ NonDecreasing(optimizer_stats[id].fidelity)

\* An entry evaluated in two rounds, its population reordered by a ranking.
C8_Witness ==
    /\ rounds >= 1
    /\ sampled_archs[1] # 1
    /\ \E id \in 1..Len(models) :
           /\ Len(optimizer_stats[id].fidelity) >= 2
           /\ optimizer_stats[id].fidelity[1] < optimizer_stats[id].fidelity[2]

\* C9: after prepare_discretization every intermediate node of the cell has
\* exactly 2 incoming edges, whatever the random choices.
C9_TwoInputs ==
    cell_op = "prepare_discretization" =>
        \A v \in Intermediate : InDegree(cell, v) = 2

\* C10: train_statistics(report_incumbent=True) reports the most accurate
\* active architecture, train_statistics(report_incumbent=False) the one the
\* most recent new_epoch call evaluated.
C10_ReportsIncumbentOrLatest ==
    (result.op = "train_statistics" /\ result.status = "ok") =>
        IF result.report_incumbent
        THEN /\ result.arch \in Active
             /\ \A a \in Active : Accuracy(result.arch) >= Accuracy(a)
        ELSE result.arch = pre.evaluated

\* The epochs at which new_epoch has evaluated the entry at position i of the
\* active population.
EvaluatedAt(i) == queried[sampled_archs[i]]

\* C11: within a round every entry of the active population is evaluated
\* exactly once, all at the round's fidelity, and the ranking runs in the call
\* that evaluates the round's last entry and in no other: the entries before
\* the round's position have one evaluation per round started, the last at
\* the current fidelity, the entries from the position on have one per round
\* completed, and a call ranks exactly when its population is full and it
\* evaluated the last position.
C11_OneEvaluationPerRound ==
    /\ \A i \in 1..Len(sampled_archs) :
          IF i <= fidelity_counter
          THEN /\ Len(EvaluatedAt(i)) = rounds + 1
               /\ EvaluatedAt(i)[rounds + 1] = fidelity
          ELSE Len(EvaluatedAt(i)) = rounds
    /\ \A i, j \in 1..Len(sampled_archs) :
          i # j => sampled_archs[i] # sampled_archs[j]
    /\ fidelity_counter < number_archs
    /\ pre.called =>
          /\ pre.ranked <=> (Len(pre.archs) = pre.n /\ pre.evaluated = pre.archs[pre.n])
          /\ pre.ranked =>
                \A i \in 1..Len(pre.archs) :
                    /\ Len(queried[pre.archs[i]]) = rounds
                    /\ queried[pre.archs[i]][rounds] = pre.fidelity

C11_Witness == Ranked /\ rounds >= 2 /\ pre.n >= 2 /\ ~pre.first

\* C14: new_epoch fails with NameError whenever budget_type is neither 'epoch'
\* nor 'time', and completes, returning a budget, whenever it is one of the
\* two.
C14_NameErrorOnUnknownBudgetType ==
    result.op = "new_epoch" =>
        IF budget_type \in {"epoch", "time"}
        THEN result.status = "ok" /\ pre.called /\ result.arch = pre.evaluated
        ELSE result.status = "NameError" /\ ~pre.called

C14_Witness ==
    result.op = "new_epoch" /\ result.status = "NameError" /\ budget_type = "steps"

\* Every accuracy a new_epoch call has measured: update_optimizer_stats
\* records the measurement of each call under the evaluated entry.
Measured ==
    UNION {{optimizer_stats[k].val_acc[i] : i \in 1..Len(optimizer_stats[k].val_acc)} :
           k \in DOMAIN optimizer_stats}

\* The measurement the entry at position i of the history had when it was
\* inserted, below capacity: the history gets one entry per call, so the
\* position holds its object's n-th evaluation, n the object's occurrences up
\* to the position.
MeasuredAtInsertion(i) ==
    LET n == Cardinality({j \in 1..i : history[j] = history[i]})
    IN optimizer_stats[history[i]].val_acc[n]

\* C17: the history contains an entry whose recorded accuracy is the highest
\* accuracy any new_epoch call has measured so far, and the recorded accuracy
\* of every history entry is the measurement it had when it was inserted.
C17_HistoryKeepsBest ==
    (calls > 0 /\ Len(history) < HistoryCapacity) =>
        /\ \E i \in 1..Len(history) :
              \A a \in Measured : Accuracy(history[i]) >= a
        /\ \A i \in 1..Len(history) :
              Accuracy(history[i]) = MeasuredAtInsertion(i)

\* The positions of a history whose entry has a strictly lower accuracy than
\* the entry c has.
Lower(h, c) == {i \in 1..Len(h) : Accuracy(h[i]) < Accuracy(c)}

\* C16: the history never holds more than 100 entries; a call that finds it
\* below capacity appends the entry it evaluated; a call that finds it at
\* capacity replaces the first entry whose accuracy is strictly lower than
\* the evaluated entry's and leaves every other position as it was, and
\* leaves the whole history as it was when no entry is strictly lower.
C16_BoundedHistory ==
    /\ Len(history) <= 100
    /\ pre.called =>
          LET h == pre.history
              c == pre.evaluated
          IN IF Len(h) < 100 THEN history = Append(h, c)
             ELSE IF Lower(h, c) = {} THEN history = h
             ELSE /\ Len(history) = Len(h)
                  /\ \E f \in Lower(h, c) :
                        /\ \A i \in Lower(h, c) : f <= i
                        /\ \A i \in 1..Len(h) :
                              history[i] = IF i = f THEN c ELSE h[i]

C16_Witness ==
    /\ pre.called
    /\ Len(pre.history) = 100
    /\ history # pre.history
    /\ history[1] = pre.history[1]

\* C12: with a benchmark handle and an accepted epoch, query returns -1
\* without raising and without calling a predictor for every metric other than
\* VAL_ACCURACY and TRAIN_TIME; VAL_ACCURACY returns what the accuracy
\* predictor gives and TRAIN_TIME what the runtime predictor gives.
C12_UnsupportedMetricSentinel ==
    (answer.called /\ answer.dataset_api # "None" /\ answer.epoch \in {0, -1, 100}) =>
        /\ answer.status = "ok"
        /\ answer.metric = "VAL_ACCURACY" =>
              answer.value = answer.response.acc /\ answer.predictor = "nb301_model[0]"
        /\ answer.metric = "TRAIN_TIME" =>
              answer.value = answer.response.rt /\ answer.predictor = "nb301_model[1]"
        /\ answer.metric \notin {"VAL_ACCURACY", "TRAIN_TIME"} =>
              answer.value = -1 /\ answer.predictor = "none"

C12_Witness ==
    /\ answer.called /\ answer.dataset_api = "nb301" /\ answer.epoch = 100
    /\ answer.metric = "TRAIN_LOSS" /\ answer.value = -1

\* C13: without a benchmark handle query fails with NotImplementedError for
\* every metric and every epoch, before the epoch is checked and before any
\* predictor is called, and the graph is as it was.
C13_MissingBenchmarkHandle ==
    (answer.called /\ answer.dataset_api = "None") =>
        /\ answer.status = "NotImplementedError"
        /\ ~answer.epoch_checked
        /\ answer.predictor = "none"
        /\ cell_op = "query" => cell = cell_before

C13_Witness ==
    /\ answer.called /\ answer.dataset_api = "None" /\ answer.epoch = 1
    /\ answer.metric = "VAL_ACCURACY" /\ answer.status = "NotImplementedError"

\* C15 as stated: with a benchmark handle, query accepts the epoch exactly
\* when it is -1 or 100 and fails the assertion for every other value,
\* 0 included.
C15_EpochUnsetOrFinal ==
    (answer.called /\ answer.dataset_api # "None") =>
        (answer.status = "AssertionError" <=> answer.epoch \notin {-1, 100})

\* C15, amended: with a benchmark handle, query accepts the epoch exactly
\* when it is 0, -1 or 100, and fails the assertion for every other value.
C15_EpochZeroUnsetOrFinal ==
    (answer.called /\ answer.dataset_api # "None") =>
        /\ answer.status = "AssertionError" <=> answer.epoch \notin {0, -1, 100}
        /\ answer.status \in {"ok", "AssertionError"}

C15_Witness ==
    /\ answer.called /\ answer.dataset_api = "nb301" /\ answer.epoch = 0
    /\ answer.status = "ok"

\* The rank of an edge's largest post-softmax weight with the no-op left out
\* of the softmax: logits are 0 or 1, so among the seven other candidates the
\* largest weight is higher the fewer candidates share the logit 1, and
\* lowest when all seven are level.
Score(g, u, v) ==
    LET a == g[<<u, v>>].alpha
        ahead == Cardinality({i \in {1} \cup 3..8 : a[i] = 1})
    IN IF ahead \in {0, 7} THEN 0 ELSE 7 - ahead

OpenSources(g, v) == {u \in CellNodes : <<u, v>> \in DOMAIN g /\ ~g[<<u, v>>].final}

OneShot(g, v) == \A u \in OpenSources(g, v) : g[<<u, v>>].alpha # <<>>

\* C20: in one-shot mode prepare_discretization leaves a node that had more
\* than 2 incoming edges that are not finalized with exactly 2 of them, the 2
\* of highest score, and deletes the others; of two edges of equal score the
\* one with the earlier source is preferred.
C20_KeepsTopTwo ==
    cell_op = "prepare_discretization" =>
        \A v \in Intermediate :
            (OneShot(cell_before, v) /\ Cardinality(OpenSources(cell_before, v)) > 2) =>
                /\ OpenSources(cell, v) \subseteq OpenSources(cell_before, v)
                /\ Cardinality(OpenSources(cell, v)) = 2
                /\ \A u \in OpenSources(cell, v) :
                      \A d \in OpenSources(cell_before, v) \ OpenSources(cell, v) :
                          \/ Score(cell_before, u, v) > Score(cell_before, d, v)
                          \/ /\ Score(cell_before, u, v) = Score(cell_before, d, v)
                             /\ u < d

\* A node of five weighted inputs where the kept pair is not the first two,
\* a tie was broken by position, and the no-op's logit would have changed
\* the outcome.
C20_Witness ==
    /\ cell_op = "prepare_discretization"
    /\ OneShot(cell_before, 6)
    /\ OpenSources(cell_before, 6) = 1..5
    /\ OpenSources(cell, 6) = {2, 4}
    /\ Score(cell_before, 4, 6) = Score(cell_before, 5, 6)
    /\ cell_before[<<1, 6>>].alpha[2] = 1

LowerFirst(c) == \A i \in 0..3 : c[2 * i + 1][1] < c[2 * i + 2][1]

StatsFields == {"train_acc", "val_acc", "test_acc", "train_time", "fidelity"}

\* Sequence t is sequence s with one value appended.
OneAppended(s, t) == Len(t) = Len(s) + 1 /\ SubSeq(t, 1, Len(s)) = s

\* C23: a new_epoch call that completes appends exactly one value to each of
\* the five sequences of the entry it evaluated, changes no recorded value and
\* no other entry; no other operation changes the map; the five sequences of
\* an entry always have the same length.
C23_StatsAppendOnly ==
    /\ [](\A k \in DOMAIN optimizer_stats : \A f \in StatsFields :
              Len(optimizer_stats[k][f]) = Len(optimizer_stats[k].fidelity))
    /\ [][IF calls' = calls + 1
          THEN LET k == pre'.evaluated
               IN /\ DOMAIN optimizer_stats' = DOMAIN optimizer_stats \cup {k}
                  /\ \A j \in DOMAIN optimizer_stats \ {k} :
                        optimizer_stats'[j] = optimizer_stats[j]
                  /\ \A f \in StatsFields :
                        IF k \in DOMAIN optimizer_stats
                        THEN OneAppended(optimizer_stats[k][f], optimizer_stats'[k][f])
                        ELSE Len(optimizer_stats'[k][f]) = 1
          ELSE optimizer_stats' = optimizer_stats]_vars

C23_Witness ==
    /\ rounds >= 1
    /\ \E j, k \in DOMAIN optimizer_stats :
          /\ Len(optimizer_stats[j].val_acc) = 1
          /\ Len(optimizer_stats[k].val_acc) >= 2
          /\ optimizer_stats[k].val_acc[1] # optimizer_stats[k].val_acc[2]

\* C25: new architectures are sampled only in the first round: a call that
\* samples starts before the first ranking; after the first ranking no step
\* creates an entry or brings one into the active population, so the
\* population after a ranking is a subset of the one before it and a dropped
\* entry stays out.
C25_SamplingOnlyInFirstRound ==
    /\ []((pre.called /\ pre.first) => rounds = IF pre.ranked THEN 1 ELSE 0)
    /\ [](Ranked => Active \subseteq {pre.archs[i] : i \in 1..Len(pre.archs)})
    /\ [][rounds >= 1 =>
            /\ Len(models') = Len(models)
            /\ {sampled_archs'[i] : i \in 1..Len(sampled_archs')} \subseteq Active]_vars

C25_Witness ==
    /\ Ranked /\ rounds >= 2 /\ ~pre.first
    /\ Cardinality(Active) < Len(pre.archs)
    /\ Len(pre.archs) < Len(models)

\* C26: between calls the position counter is at least 0 and below
\* number_archs and the population is no longer than number_archs; in the
\* first round the counter is the population's length, and from the first
\* ranking on the population has exactly number_archs >= 1 entries: the
\* position the next call reads exists, also after end.
C26_PositionInRange ==
    /\ 0 <= fidelity_counter
    /\ fidelity_counter < number_archs
    /\ Len(sampled_archs) <= number_archs
    /\ rounds = 0 => fidelity_counter = Len(sampled_archs)
    /\ rounds >= 1 => Len(sampled_archs) = number_archs /\ number_archs >= 1

\* A call made after end, in a population of two or more.
C26_Witness ==
    /\ pre.called /\ pre.end /\ ~pre.first
    /\ fidelity_counter >= 1
    /\ pre.evaluated = sampled_archs[fidelity_counter]

\* C27: a new_epoch call that fails with NameError leaves the active
\* population, the position counter, the fidelity, number_archs, the end
\* flag, the history and the optimizer-stats map, and the entries they hold,
\* as they were before the call.
C27_FailedCallChangesNothing ==
    [][(result'.op = "new_epoch" /\ result'.status = "NameError") =>
          UNCHANGED <<sampled_archs, fidelity_counter, fidelity, number_archs,
                      end, history, optimizer_stats, models>>]_vars

C27_Witness ==
    /\ result.op = "new_epoch" /\ result.status = "NameError"
    /\ number_archs >= 2
    /\ sampled_archs = <<>> /\ history = <<>> /\ fidelity = min_fidelity

\* C28: repeated new_epoch calls set end, after at most
\* floor(log_eta(number_archs)) + 1 completed rounds, number_archs being the
\* number of architectures sampled in the first round: while end is false the
\* completed rounds r have eta^r <= number_archs, and the round that sets end
\* is at most one more.
C28_EndsWithinLogRounds ==
    /\ []((~end /\ rounds >= 1) => Pow(eta, rounds) <= Len(models))
    /\ [](end => end_round >= 1 /\ Pow(eta, end_round - 1) <= Len(models))
    /\ <>end

\* end set by the population running out, at fidelity 0, in exactly
\* floor(log_2(4)) + 1 = 3 rounds.
C28_Witness ==
    /\ end /\ end_round = 3 /\ eta = 2 /\ Len(models) = 4
    /\ min_fidelity = 0 /\ fidelity = 0

\* C24: over the NAS-Bench-301 search space with a benchmark handle, no
\* new_epoch call fails the epoch assertion of query, at any fidelity the
\* scheduler reaches.
C24_QueriesAccepted ==
    result.op = "new_epoch" => result.status # "AssertionError"

WellFormed(c) ==
    /\ Len(c) = 8
    /\ \A j \in 1..8 :
          /\ Len(c[j]) = 2
          /\ c[j][1] \in 0..((j - 1) \div 2 + 1)
          /\ c[j][2] \in 0..6
    /\ \A i \in 0..3 : c[2 * i + 1][1] # c[2 * i + 2][1]

\* C22: the compact sample_random_architecture produces is well-formed,
\* whatever the random outcome: two cell sequences of 8 (input, operation)
\* pairs each, 2 consecutive pairs per intermediate node i in 0..3 with
\* different inputs below i + 2, operations in 0..6; and it is what the
\* search space stores as its compact.
C22_SampledCompactWellFormed ==
    cell_op = "sample_random_architecture" =>
        /\ Len(encoding) = 2
        /\ WellFormed(encoding[1])
        /\ WellFormed(encoding[2])
        /\ compact = encoding[IF cell_name = "normal_cell" THEN 1 ELSE 2]
        /\ codec.set = compact

\* A sample whose last node draws the inputs 4 and 2, in that order, for the
\* reduction cell and 3 and 0 for the normal cell, with operation 6.
C22_Witness ==
    /\ cell_op = "sample_random_architecture"
    /\ cell_name = "reduction_cell"
    /\ encoding[2][7] = <<4, 6>> /\ encoding[2][8] = <<2, 6>>
    /\ encoding[1][7] = <<3, 6>> /\ encoding[1][8] = <<0, 6>>
    /\ compact = encoding[2]

====
